---- MODULE Spec2Model ----
(***************************************************************************)
(* Match state engine of minicup_administration/core/models/core.py:       *)
(* Match.change_state, Match.serialize, Match.teams, MatchEvent.serialize. *)
(*                                                                         *)
(* Python values are modelled as follows.  An optional value (a nullable   *)
(* column, a missing return value) is a sequence of length 0 (None) or 1   *)
(* (<<v>>).  A str is a TLA+ string; where the code looks inside a string  *)
(* (the `in` operator on a str) its spelling is taken from Chars.          *)
(***************************************************************************)
EXTENDS Integers, Sequences, FiniteSets, TLC

VARIABLES
    match_row,      \* the persisted row of table `match` (one match)
    match_event,    \* the persisted rows of table `match_event`, in insertion order
    self,           \* the sequential caller's in-memory Match instance
    last,           \* the last change_state call or event insertion, and its outcome
    snapshot,       \* the result of the last Match.serialize call
    event_snapshot, \* the result of the last MatchEvent.serialize call
    start_row,      \* the persisted row the behaviour started from
    timeline,       \* the result of the last listing of the match's events
    pc,             \* concurrent callers: position inside change_state
    local,          \* concurrent callers: local variables of change_state
    commits         \* every write of online_state, as <<caller, state read, state written>>

vars == <<match_row, match_event, self, last, snapshot, event_snapshot,
          start_row, timeline, pc, local, commits>>

----------------------------------------------------------------------------
(* Python helpers *)

None == << >>

Some(v) == <<v>>

\* bool(x) of an optional value: None is false, a datetime is true
bool(x) == x # None

\* bool(s) of a str: only the empty string is false
str_bool(s) == s # ""

\* the spelling of every string the model uses
Chars ==
    [s \in {"", "in", "init", "half_first", "pause", "half_pause",
            "half_second", "end", "bogus"} |->
        CASE s = "" -> << >>
          [] s = "in" -> <<"i", "n">>
          [] s = "init" -> <<"i", "n", "i", "t">>
          [] s = "half_first" -> <<"h", "a", "l", "f", "_", "f", "i", "r", "s", "t">>
          [] s = "pause" -> <<"p", "a", "u", "s", "e">>
          [] s = "half_pause" -> <<"h", "a", "l", "f", "_", "p", "a", "u", "s", "e">>
          [] s = "half_second" -> <<"h", "a", "l", "f", "_", "s", "e", "c", "o", "n", "d">>
          [] s = "end" -> <<"e", "n", "d">>
          [] s = "bogus" -> <<"b", "o", "g", "u", "s">>]

\* x in s, for two str: x is a substring of s
StrContains(s, x) ==
    LET cs == Chars[s]
        cx == Chars[x]
    IN  \E i \in 0..(Len(cs) - Len(cx)) : SubSeq(cs, i + 1, i + Len(cx)) = cx

\* x in t, for a tuple t
TupleContains(t, x) == \E i \in 1..Len(t) : t[i] = x

\* a Python container is tagged with its type
PyTuple(t) == [kind |-> "tuple", items |-> t]

PyStr(s) == [kind |-> "str", items |-> s]

\* x in c
PyIn(x, c) ==
    IF c.kind = "tuple" THEN TupleContains(c.items, x) ELSE StrContains(c.items, x)

----------------------------------------------------------------------------
(* class Match: constants *)

STATE_INIT == "init"

STATE_HALF_FIRST == "half_first"

STATE_HALF_PAUSE == "pause"

STATE_HALF_SECOND == "half_second"

STATE_END == "end"

STATES_keys == {STATE_INIT, STATE_HALF_FIRST, STATE_HALF_PAUSE, STATE_HALF_SECOND, STATE_END}

\* STATES with a transition out of end, and half_first permitting a skip of the pause
STATES_loose ==
    [s \in STATES_keys |->
        CASE s = STATE_INIT -> <<STATE_HALF_FIRST>>
          [] s = STATE_HALF_FIRST -> <<STATE_HALF_PAUSE, STATE_HALF_SECOND>>
          [] s = STATE_HALF_PAUSE -> <<STATE_HALF_SECOND>>
          [] s = STATE_HALF_SECOND -> <<STATE_END>>
          [] s = STATE_END -> <<STATE_INIT>>]

STATES ==
    [s \in STATES_keys |->
        CASE s = STATE_INIT -> <<STATE_HALF_FIRST>>
          [] s = STATE_HALF_FIRST -> <<STATE_HALF_PAUSE>>
          [] s = STATE_HALF_PAUSE -> <<STATE_HALF_SECOND>>
          [] s = STATE_HALF_SECOND -> <<STATE_END>>
          [] s = STATE_END -> << >>]

\* indexed by bool(match.confirmed): False -> 0, True -> 1
DEFAULT_STATES == [b \in BOOLEAN |-> IF b THEN STATE_END ELSE STATE_INIT]

HALF_LENGTH_minutes == 10

\* the half length taken in minutes where seconds are meant
HALF_LENGTH_as_minutes == HALF_LENGTH_minutes

\* timedelta.total_seconds()
HALF_LENGTH_total_seconds == HALF_LENGTH_minutes * 60

TYPE_START == "start"

TYPE_GOAL == "goal"

TYPE_END == "end"

TYPE_INFO == "info"

----------------------------------------------------------------------------
(* reference data the match points to (read-only for this module) *)

TeamInfo_ids == {1, 2, 3}

TeamInfo ==
    [t \in TeamInfo_ids |->
        CASE t = 1 -> [id |-> 1, name |-> "Litovel", dress_color |-> "red",
                       dress_color_secondary |-> ""]
          [] t = 2 -> [id |-> 2, name |-> "Olomouc", dress_color |-> "blue",
                       dress_color_secondary |-> "white"]
          [] t = 3 -> [id |-> 3, name |-> "Prostejov", dress_color |-> "green",
                       dress_color_secondary |-> ""]]

Category == [id |-> 1, name |-> "U12"]

Player == [id |-> 1, name |-> "Jan", surname |-> "Novak", number |-> 7, team_info |-> 1]

\* the values online_state can hold in storage: unset, the five states, a foreign value
OnlineStateValues == {""} \cup STATES_keys \cup {"bogus"}

\* the arguments callers pass to change_state
RequestedStates == STATES_keys \cup {"", "in", "half_pause", "bogus"}

\* a datetime, as its epoch seconds
ConfirmedAt == [epoch |-> 1500000000]

ConfirmedValues == {None, Some(ConfirmedAt)}

\* a row of table `match`
MatchRow(online_state, confirmed) ==
    [id |-> 1, match_term |-> None, category |-> Category.id,
     home_team_info |-> 1, away_team_info |-> 2,
     score_home |-> None, score_away |-> None,
     confirmed |-> confirmed, confirmed_as |-> None,
     online_state |-> online_state,
     first_half_start |-> None, second_half_start |-> None,
     facebook_video_id |-> None]

----------------------------------------------------------------------------
(* Match.change_state *)

\* refresh_from_db() left out: the instance keeps what it held
refresh_from_db_skipped(obj, row) == obj

\* Model.refresh_from_db(): every field of the instance is reloaded from the row
refresh_from_db(obj, row) == row

\* Model.save() without update_fields: every column is written
save_every_field(row, obj, update_fields) == obj

\* Model.save(update_fields=fields): only the named columns are written
save(row, obj, update_fields) ==
    [f \in DOMAIN row |-> IF f \in update_fields THEN obj[f] ELSE row[f]]

\* self.STATES.get(self.online_state, self.DEFAULT_STATES[bool(self.confirmed)])
permitted(obj) ==
    IF obj.online_state \in DOMAIN STATES
    THEN PyTuple(STATES[obj.online_state])
    ELSE PyStr(DEFAULT_STATES[bool(obj.confirmed)])

\* new_event without the case of an unset previous state
new_event_unset_unhandled(old_state) ==
    LET event == [match |-> 1, score_home |-> None, score_away |-> None,
                  message |-> None, type |-> None, half_index |-> None,
                  time_offset |-> None, player |-> None, team_info |-> None]
    IN  IF old_state = STATE_INIT
        THEN [raised |-> "",
              event |-> [event EXCEPT !.type = Some(TYPE_START),
                                      !.half_index = Some(0),
                                      !.time_offset = Some(0)]]
        ELSE IF old_state = STATE_HALF_FIRST
        THEN [raised |-> "",
              event |-> [event EXCEPT !.type = Some(TYPE_END),
                                      !.half_index = Some(0),
                                      !.time_offset = Some(HALF_LENGTH_total_seconds)]]
        ELSE IF old_state = STATE_HALF_PAUSE
        THEN [raised |-> "",
              event |-> [event EXCEPT !.type = Some(TYPE_START),
                                      !.half_index = Some(1),
                                      !.time_offset = Some(0)]]
        ELSE IF old_state = STATE_HALF_SECOND
        THEN [raised |-> "",
              event |-> [event EXCEPT !.type = Some(TYPE_END),
                                      !.half_index = Some(1),
                                      !.time_offset = Some(HALF_LENGTH_total_seconds)]]
        ELSE [raised |-> "RuntimeError", event |-> event]

\* new_event with the second half's end stamped as the first half's
new_event_first_half_only(old_state) ==
    LET event == [match |-> 1, score_home |-> None, score_away |-> None,
                  message |-> None, type |-> None, half_index |-> None,
                  time_offset |-> None, player |-> None, team_info |-> None]
    IN  IF ~str_bool(old_state) \/ old_state = STATE_INIT \/ old_state = STATE_HALF_PAUSE
        THEN [raised |-> "",
              event |-> [event EXCEPT !.type = Some(TYPE_START),
                                      !.half_index = Some(0),
                                      !.time_offset = Some(0)]]
        ELSE IF old_state = STATE_HALF_FIRST \/ old_state = STATE_HALF_SECOND
        THEN [raised |-> "",
              event |-> [event EXCEPT !.type = Some(TYPE_END),
                                      !.half_index = Some(0),
                                      !.time_offset = Some(HALF_LENGTH_total_seconds)]]
        ELSE [raised |-> "RuntimeError", event |-> event]

\* the MatchEvent built from old_state, or the RuntimeError of the last branch
new_event(old_state) ==
    LET event == [match |-> 1, score_home |-> None, score_away |-> None,
                  message |-> None, type |-> None, half_index |-> None,
                  time_offset |-> None, player |-> None, team_info |-> None]
    IN  IF ~str_bool(old_state) \/ old_state = STATE_INIT
        THEN [raised |-> "",
              event |-> [event EXCEPT !.type = Some(TYPE_START),
                                      !.half_index = Some(0),
                                      !.time_offset = Some(0)]]
        ELSE IF old_state = STATE_HALF_FIRST
        THEN [raised |-> "",
              event |-> [event EXCEPT !.type = Some(TYPE_END),
                                      !.half_index = Some(0),
                                      !.time_offset = Some(HALF_LENGTH_total_seconds)]]
        ELSE IF old_state = STATE_HALF_PAUSE
        THEN [raised |-> "",
              event |-> [event EXCEPT !.type = Some(TYPE_START),
                                      !.half_index = Some(1),
                                      !.time_offset = Some(0)]]
        ELSE IF old_state = STATE_HALF_SECOND
        THEN [raised |-> "",
              event |-> [event EXCEPT !.type = Some(TYPE_END),
                                      !.half_index = Some(1),
                                      !.time_offset = Some(HALF_LENGTH_total_seconds)]]
        ELSE [raised |-> "RuntimeError", event |-> event]

\* Model.save() of a new MatchEvent: the row gets the next id and is appended
event_save(events, event) == Append(events, [id |-> Len(events) + 1] @@ event)

\* the two writes of change_state in one transaction: a failed insert undoes the update
after_failed_insert_atomic(row, old_state) == [row EXCEPT !.online_state = old_state]

\* the row after event.save() raised: the update of online_state was committed
\* on its own before, and nothing in change_state catches the error or undoes it
after_failed_insert(row, old_state) == row

\* the two early returns of change_state: "unknown", "cannot", or "" when the
\* transition is accepted
rejection(obj, new_state) ==
    IF new_state \notin DOMAIN STATES THEN "unknown"
    ELSE IF ~PyIn(new_state, permitted(obj)) THEN "cannot"
    ELSE ""

\* change_state that builds the event, and raises, before it saves online_state
change_state_build_first(obj, row, events, new_state) ==
    LET fresh == refresh_from_db(obj, row)
        old_state == fresh.online_state
        changed == [fresh EXCEPT !.online_state = new_state]
        saved == save(row, changed, {"online_state"})
        built == new_event(old_state)
    IN  IF rejection(fresh, new_state) # ""
        THEN [self |-> fresh, row |-> row, events |-> events,
              ret |-> None, raised |-> "", log |-> rejection(fresh, new_state)]
        ELSE IF built.raised # ""
        THEN [self |-> fresh, row |-> row, events |-> events,
              ret |-> None, raised |-> built.raised, log |-> "changing"]
        ELSE [self |-> changed, row |-> saved,
              events |-> event_save(events, built.event),
              ret |-> Some([id |-> Len(events) + 1] @@ built.event),
              raised |-> "", log |-> "changing"]

\* change_state that assigns and saves online_state before it validates
change_state_save_first(obj, row, events, new_state) ==
    LET fresh == refresh_from_db(obj, row)
        old_state == fresh.online_state
        changed == [fresh EXCEPT !.online_state = new_state]
        saved == save(row, changed, {"online_state"})
        built == new_event(old_state)
    IN  IF rejection(fresh, new_state) # ""
        THEN [self |-> changed, row |-> saved, events |-> events,
              ret |-> None, raised |-> "", log |-> rejection(fresh, new_state)]
        ELSE IF built.raised # ""
        THEN [self |-> changed, row |-> saved, events |-> events,
              ret |-> None, raised |-> built.raised, log |-> "changing"]
        ELSE [self |-> changed, row |-> saved,
              events |-> event_save(events, built.event),
              ret |-> Some([id |-> Len(events) + 1] @@ built.event),
              raised |-> "", log |-> "changing"]

\* the whole method, run without interruption: the instance, the row and the
\* event table afterwards, the value returned and the exception raised
change_state(obj, row, events, new_state) ==
    LET fresh == refresh_from_db(obj, row)
        old_state == fresh.online_state
        changed == [fresh EXCEPT !.online_state = new_state]
        saved == save(row, changed, {"online_state"})
        built == new_event(old_state)
    IN  IF rejection(fresh, new_state) # ""
        THEN [self |-> fresh, row |-> row, events |-> events,
              ret |-> None, raised |-> "", log |-> rejection(fresh, new_state)]
        ELSE IF built.raised # ""
        THEN [self |-> changed, row |-> saved, events |-> events,
              ret |-> None, raised |-> built.raised, log |-> "changing"]
        ELSE [self |-> changed, row |-> saved,
              events |-> event_save(events, built.event),
              ret |-> Some([id |-> Len(events) + 1] @@ built.event),
              raised |-> "", log |-> "changing"]

----------------------------------------------------------------------------
(* Match.serialize *)

\* datetime.timestamp()
timestamp(dt) == dt.epoch

format_color(team) ==
    IF str_bool(team.dress_color_secondary)
    THEN team.dress_color \o " / " \o team.dress_color_secondary
    ELSE team.dress_color

\* display_state with the two defaults exchanged
display_state_swapped(obj) ==
    IF str_bool(obj.online_state) THEN obj.online_state
    ELSE IF bool(obj.confirmed) THEN STATE_INIT ELSE STATE_END

\* self.online_state or (self.STATE_END if self.confirmed else self.STATE_INIT)
display_state(obj) ==
    IF str_bool(obj.online_state) THEN obj.online_state
    ELSE IF bool(obj.confirmed) THEN STATE_END ELSE STATE_INIT

\* the keyword arguments serialize passes to dict() itself
own_fields(obj) ==
    [id |-> obj.id,
     home_team_name |-> TeamInfo[obj.home_team_info].name,
     home_team_id |-> TeamInfo[obj.home_team_info].id,
     away_team_name |-> TeamInfo[obj.away_team_info].name,
     away_team_id |-> TeamInfo[obj.away_team_info].id,
     home_team_color |-> "#ff8574",
     away_team_color |-> "#88dd12",
     home_team_color_name |-> format_color(TeamInfo[obj.home_team_info]),
     away_team_color_name |-> format_color(TeamInfo[obj.away_team_info]),
     category_name |-> Category.name,
     first_half_start |-> IF bool(obj.first_half_start)
                          THEN Some(timestamp(obj.first_half_start[1])) ELSE None,
     second_half_start |-> IF bool(obj.second_half_start)
                           THEN Some(timestamp(obj.second_half_start[1])) ELSE None,
     score |-> <<obj.score_home, obj.score_away>>,
     confirmed |-> IF bool(obj.confirmed)
                   THEN Some(timestamp(obj.confirmed[1])) ELSE None,
     half_length |-> HALF_LENGTH_total_seconds,
     state |-> display_state(obj),
     facebook_video_id |-> obj.facebook_video_id]

\* dict(k1=v1, ..., **kwargs): a key given twice is a TypeError
dict_call(fields, kwargs) ==
    IF DOMAIN fields \cap DOMAIN kwargs # {}
    THEN [raised |-> "TypeError", value |-> << >>]
    ELSE [raised |-> "", value |-> fields @@ kwargs]

serialize(obj, kwargs) == dict_call(own_fields(obj), kwargs)

\* the extra fields callers pass to serialize
KwargsValues ==
    { << >>,
      [events |-> << >>],
      [state |-> "custom"],
      [id |-> 99],
      [events |-> << >>, score |-> <<9, 9>>] }

----------------------------------------------------------------------------
(* Match.teams, MatchEvent.score, MatchEvent.serialize *)

\* the two TeamInfo instances of the match; instances compare by primary key
teams(obj) == <<Some(obj.home_team_info), Some(obj.away_team_info)>>

\* tuple.index(x) counting from 1 instead of 0
tuple_index_from_one(t, x) ==
    IF TupleContains(t, x)
    THEN [raised |-> "", value |-> CHOOSE i \in 1..Len(t) :
                                       t[i] = x /\ \A j \in 1..(i - 1) : t[j] # x]
    ELSE [raised |-> "ValueError", value |-> 0]

\* tuple.index(x): the 0-based position of the first element equal to x, or ValueError
tuple_index(t, x) ==
    IF TupleContains(t, x)
    THEN [raised |-> "", value |-> (CHOOSE i \in 1..Len(t) :
                                       t[i] = x /\ \A j \in 1..(i - 1) : t[j] # x) - 1]
    ELSE [raised |-> "ValueError", value |-> 0]

\* x or 0, for an optional integer
or_zero(x) == IF x = None \/ x = Some(0) THEN 0 ELSE x[1]

score(event) == <<or_zero(event.score_home), or_zero(event.score_away)>>

\* MatchEvent.serialize(); match is the row event.match refers to
event_serialize(event, match) ==
    LET found == tuple_index(teams(match), event.team_info)
        team_index == IF found.raised = "ValueError" THEN -1 ELSE found.value
    IN  [raised |-> "",
         value |-> [id |-> event.id,
                    time_offset |-> event.time_offset,
                    half_index |-> event.half_index,
                    message |-> event.message,
                    score |-> score(event),
                    type |-> event.type,
                    team_index |-> team_index,
                    player_name |-> IF bool(event.player)
                                    THEN Some(Player.name \o " " \o Player.surname)
                                    ELSE None,
                    player_number |-> IF bool(event.player)
                                      THEN Some(Player.number) ELSE None]]

\* the events the score-reporting and commentary flows insert: one of the home
\* team, one of the away team, one of a team that does not play the match (the
\* events change_state inserts have no team)
ExternalEvents ==
    { [match |-> 1, score_home |-> Some(1), score_away |-> Some(0), message |-> None,
       type |-> Some(TYPE_GOAL), half_index |-> Some(0), time_offset |-> Some(300),
       player |-> Some(Player.id), team_info |-> Some(1)],
      [match |-> 1, score_home |-> Some(1), score_away |-> Some(1), message |-> None,
       type |-> Some(TYPE_GOAL), half_index |-> Some(1), time_offset |-> Some(0),
       player |-> None, team_info |-> Some(2)],
      [match |-> 1, score_home |-> None, score_away |-> None, message |-> Some("timeout"),
       type |-> Some(TYPE_INFO), half_index |-> Some(0), time_offset |-> Some(600),
       player |-> None, team_info |-> Some(3)] }

MaxExternalEvents == 2

----------------------------------------------------------------------------
(* the sequential caller *)

Procs == {1, 2}

NoLast == [op |-> "none"]

\* the local variables of a caller that has not called change_state yet
Idle(obj) ==
    [self |-> obj, new_state |-> "", old_state |-> "", version |-> 0,
     event |-> None, ret |-> None, raised |-> "", log |-> ""]

InitCommon ==
    /\ match_event = << >>
    /\ last = NoLast
    /\ snapshot = NoLast
    /\ event_snapshot = NoLast
    /\ start_row = match_row
    /\ timeline = NoLast
    /\ pc = [p \in Procs |-> "idle"]
    /\ local = [p \in Procs |-> Idle(match_row)]
    /\ commits = << >>

Init ==
    /\ \E s \in OnlineStateValues, c \in ConfirmedValues :
           match_row = MatchRow(s, c)
    /\ \E s \in OnlineStateValues, c \in ConfirmedValues :
           self = MatchRow(s, c)
    /\ InitCommon

\* match.change_state(new_state) by the only caller
ChangeState ==
    \E new_state \in RequestedStates :
        LET r == change_state(self, match_row, match_event, new_state)
        IN  /\ self' = r.self
            /\ match_row' = r.row
            /\ match_event' = r.events
            /\ last' = [op |-> "change_state", new_state |-> new_state,
                        had |-> self.online_state,
                        row |-> match_row, events |-> match_event,
                        ret |-> r.ret, raised |-> r.raised, log |-> r.log]
            /\ UNCHANGED <<snapshot, event_snapshot, start_row, timeline, pc, local, commits>>

\* match.serialize(**kwargs) by the only caller
Serialize ==
    \E kwargs \in KwargsValues :
        /\ snapshot' = [op |-> "serialize", of |-> self, kwargs |-> kwargs,
                        result |-> serialize(self, kwargs)]
        /\ UNCHANGED <<match_row, match_event, self, last, event_snapshot,
                       start_row, timeline, pc, local, commits>>

Next == ChangeState \/ Serialize

Spec == Init /\ [][Next]_vars

----------------------------------------------------------------------------
(* the timeline of one match: transitions, inserted events, event snapshots *)

InitTimeline ==
    /\ match_row = MatchRow(STATE_INIT, None)
    /\ self = match_row
    /\ InitCommon

\* number of rows of the event table that change_state did not insert
ExternalCount(events) ==
    Cardinality({i \in 1..Len(events) : events[i].type \notin {Some(TYPE_START), Some(TYPE_END)}})

\* MatchEvent(...).save() by the score-reporting or commentary flow
AddEvent ==
    /\ ExternalCount(match_event) < MaxExternalEvents
    /\ \E event \in ExternalEvents :
           match_event' = event_save(match_event, event)
    /\ last' = [op |-> "add_event"]
    /\ UNCHANGED <<match_row, self, snapshot, event_snapshot,
                   start_row, timeline, pc, local, commits>>

\* event.serialize() for an event of the table
SerializeEvent ==
    \E i \in 1..Len(match_event) :
        /\ event_snapshot' = [op |-> "serialize", of |-> match_event[i],
                              result |-> event_serialize(match_event[i], match_row)]
        /\ UNCHANGED <<match_row, match_event, self, last, snapshot,
                       start_row, timeline, pc, local, commits>>

NextTimeline == ChangeState \/ AddEvent \/ SerializeEvent

SpecTimeline == InitTimeline /\ [][NextTimeline]_vars

----------------------------------------------------------------------------
(* the listing of a match's events: MatchEvent.Meta.ordering *)

\* row a comes no later than row b under ORDER BY half_index, time_offset
order_by_leq(a, b) ==
    \/ a.half_index[1] < b.half_index[1]
    \/ a.half_index[1] = b.half_index[1] /\ a.time_offset[1] <= b.time_offset[1]

\* ORDER BY half_index, time_offset: the database may return the rows in any
\* order that is sorted by the two columns; rows equal in both come in any order
order_by(events) ==
    { [i \in 1..Len(events) |-> events[f[i]]] :
        f \in { g \in Permutations(1..Len(events)) :
                  \A i, j \in 1..Len(events) :
                      i < j => order_by_leq(events[g[i]], events[g[j]]) } }

\* list(match.match_match_event.all())
ListEvents ==
    /\ \E rows \in order_by(match_event) :
           timeline' = [op |-> "list", rows |-> rows]
    /\ UNCHANGED <<match_row, match_event, self, last, snapshot, event_snapshot,
                   start_row, pc, local, commits>>

NextOrdering == ChangeState \/ AddEvent \/ ListEvents

SpecOrdering == InitTimeline /\ [][NextOrdering]_vars

----------------------------------------------------------------------------
(* concurrent callers: each holds its own Match instance; the database        *)
(* statements of change_state (SELECT, UPDATE, INSERT) are the atomic steps    *)

\* accepted transitions explored per behaviour
MaxCommits == 3

InitConc ==
    /\ \E s \in OnlineStateValues, c \in ConfirmedValues :
           match_row = MatchRow(s, c)
    /\ self = match_row
    /\ InitCommon

\* lines 122-134: refresh_from_db(), the two checks, the assignment to self.online_state
Validate(p) ==
    /\ pc[p] = "idle"
    /\ \E new_state \in RequestedStates :
           LET fresh == refresh_from_db(local[p].self, match_row)
               log == rejection(fresh, new_state)
           IN  IF log # ""
               THEN /\ local' = [local EXCEPT ![p] =
                                    [Idle(fresh) EXCEPT !.new_state = new_state,
                                                        !.log = log]]
                    /\ pc' = pc
               ELSE /\ Len(commits) + Cardinality({q \in Procs : pc[q] = "save"}) < MaxCommits
                    /\ local' = [local EXCEPT ![p] =
                                    [Idle([fresh EXCEPT !.online_state = new_state])
                                       EXCEPT !.new_state = new_state,
                                              !.old_state = fresh.online_state,
                                              !.version = Len(commits),
                                              !.log = "changing"]]
                    /\ pc' = [pc EXCEPT ![p] = "save"]
    /\ UNCHANGED <<match_row, match_event, self, last, snapshot, event_snapshot,
                   start_row, timeline, commits>>

\* lines 135-154: save(update_fields=('online_state',)), then the event is built
Save(p) ==
    /\ pc[p] = "save"
    /\ match_row' = save(match_row, local[p].self, {"online_state"})
    /\ commits' = Append(commits, [by |-> p, version |-> local[p].version,
                                   from |-> local[p].old_state,
                                   to |-> local[p].new_state,
                                   stale |-> \E f \in DOMAIN match_row \ {"online_state"} :
                                                local[p].self[f] # match_row[f]])
    /\ LET built == new_event(local[p].old_state)
       IN  IF built.raised # ""
           THEN /\ local' = [local EXCEPT ![p].raised = built.raised]
                /\ pc' = [pc EXCEPT ![p] = "idle"]
           ELSE /\ local' = [local EXCEPT ![p].event = Some(built.event)]
                /\ pc' = [pc EXCEPT ![p] = "event_save"]
    /\ UNCHANGED <<match_event, self, last, snapshot, event_snapshot, start_row, timeline>>

\* lines 155-156: event.save() and return
EventSave(p) ==
    /\ pc[p] = "event_save"
    /\ match_event' = event_save(match_event, local[p].event[1])
    /\ local' = [local EXCEPT ![p].ret =
                     Some([id |-> Len(match_event) + 1] @@ local[p].event[1])]
    /\ pc' = [pc EXCEPT ![p] = "idle"]
    /\ UNCHANGED <<match_row, self, last, snapshot, event_snapshot, start_row, timeline, commits>>

NextConc == \E p \in Procs : Validate(p) \/ Save(p) \/ EventSave(p)

SpecConc == InitConc /\ [][NextConc]_vars

----------------------------------------------------------------------------
(* one caller and its environment: the score-reporting flow, which writes    *)
(* the match's score columns while the change_state call is under way, and   *)
(* a database that can fail the insert of the event                          *)

\* the score-reporting flow stores the first home goal in the match row
ReportScore ==
    /\ match_row.score_home = None
    /\ match_row' = [match_row EXCEPT !.score_home = Some(1), !.score_away = Some(0)]
    /\ UNCHANGED <<match_event, self, last, snapshot, event_snapshot,
                   start_row, timeline, pc, local, commits>>

\* line 155: event.save() fails in the database; the error leaves change_state
EventSaveFails(p) ==
    /\ pc[p] = "event_save"
    /\ match_row' = after_failed_insert(match_row, local[p].old_state)
    /\ local' = [local EXCEPT ![p].raised = "DatabaseError"]
    /\ pc' = [pc EXCEPT ![p] = "idle"]
    /\ UNCHANGED <<match_event, self, last, snapshot, event_snapshot,
                   start_row, timeline, commits>>

NextFrame ==
    Validate(1) \/ Save(1) \/ EventSave(1) \/ EventSaveFails(1) \/ ReportScore

SpecFrame == InitConc /\ [][NextFrame]_vars

----------------------------------------------------------------------------
(* vocabulary of the properties *)

\* the chain of states as the specification names them
ChainAsSpecified == <<"init", "half_first", "half_pause", "half_second", "end">>

\* the chain of states with the values the program stores
ChainAsStored == <<"init", "half_first", "pause", "half_second", "end">>

ChainStates(chain) == {chain[i] : i \in 1..Len(chain)}

\* the successors of state s in a linear chain: one state, or none for the last
ChainSucc(chain, s) == {chain[i + 1] : i \in {j \in 1..(Len(chain) - 1) : chain[j] = s}}

\* the last operation was a change_state call
Called == last.op = "change_state"

\* the last call was accepted: it returned an event
Accepted == last.ret # None

\* the last call changed neither the persisted row nor the event table
Untouched == match_row = last.row /\ match_event = last.events

\* (type, half_index, time_offset) of every event of a table, in insertion order
Triples(events) ==
    [i \in 1..Len(events) |->
        <<events[i].type[1], events[i].half_index[1], events[i].time_offset[1]>>]

ExpectedTriples ==
    << <<"start", 0, 0>>, <<"end", 0, 600>>, <<"start", 1, 0>>, <<"end", 1, 600>> >>

\* started in init, the match has walked the first i-1 steps of the chain and
\* holds exactly the first i-1 expected events; the next state is accepted, and
\* nothing is accepted at the end of the chain
WalksChain(chain) ==
    start_row.online_state = "init" =>
        /\ \E i \in 1..Len(chain) :
              /\ match_row.online_state = chain[i]
              /\ Triples(match_event) = SubSeq(ExpectedTriples, 1, i - 1)
        /\ Called /\ last.new_state \in ChainSucc(chain, last.row.online_state)
              => Accepted /\ match_row.online_state = last.new_state
        /\ Called /\ last.row.online_state = chain[Len(chain)] => ~Accepted

----------------------------------------------------------------------------
(* C1 *)

\* C1 as stated: from a persisted state of the chain init, half_first,
\* half_pause, half_second, end, a call is accepted iff it requests the single
\* successor of that state.
C1_AcceptsOnlySuccessor_AsSpecified ==
    Called /\ last.row.online_state \in ChainStates(ChainAsSpecified) \cap OnlineStateValues
        => (Accepted <=> last.new_state \in ChainSucc(ChainAsSpecified, last.row.online_state))

\* C1 (amended): the half-time state is stored and requested as "pause".  From a
\* persisted state of the chain init, half_first, pause, half_second, end, a call
\* is accepted iff it requests the single successor of that state; the state
\* itself, an earlier state, a state two or more steps ahead and "half_pause"
\* are rejected, and nothing is accepted from end.
C1_AcceptsOnlySuccessor ==
    Called /\ last.row.online_state \in ChainStates(ChainAsStored)
        => (Accepted <=> last.new_state \in ChainSucc(ChainAsStored, last.row.online_state))

C1_Witness ==
    /\ Called /\ Accepted
    /\ last.row.online_state = "half_first"
    /\ last.new_state = "pause"
    /\ match_row.online_state = "pause"

----------------------------------------------------------------------------
(* C2 *)

\* C2 as stated: with online_state empty and no confirmation, a call is
\* accepted iff it requests half_first.
C2_UnsetUnconfirmedAcceptsHalfFirst ==
    Called /\ last.row.online_state = "" /\ last.row.confirmed = None
        => (Accepted <=> last.new_state = "half_first")

----------------------------------------------------------------------------
(* C3 *)

\* C3 as stated: with online_state empty and a confirmation set, every call is
\* rejected, nothing is persisted and no event is created.
C3_UnsetConfirmedRejectsAll ==
    Called /\ last.row.online_state = "" /\ last.row.confirmed # None
        => ~Accepted /\ Untouched

----------------------------------------------------------------------------
(* C4 *)

\* C4 as stated: from init the correct next states drive online_state through
\* init, half_first, half_pause, half_second, end, appending (start,0,0),
\* (end,0,600), (start,1,0), (end,1,600) in this order; any call after end is
\* rejected.
C4_WalksChain_AsSpecified == WalksChain(ChainAsSpecified)

\* C4 (amended): the same with the half-time state requested and stored as
\* "pause": init, half_first, pause, half_second, end.
C4_WalksChain == WalksChain(ChainAsStored)

C4_Witness ==
    /\ start_row.online_state = "init"
    /\ Called /\ ~Accepted
    /\ last.row.online_state = "end"
    /\ Triples(match_event) = ExpectedTriples

----------------------------------------------------------------------------
(* C5 *)

\* C5: a call that took one of the two rejection returns gave back no event,
\* raised nothing and left the persisted row and the event table as they were
\* (so repeating it changes nothing either); an unrecognized request is always
\* rejected, and so is a request two steps ahead of a persisted state.
C5_RejectionMutatesNothing ==
    Called =>
        /\ last.log \in {"unknown", "cannot"}
              => last.ret = None /\ last.raised = "" /\ Untouched
        /\ last.new_state \notin ChainStates(ChainAsStored) => last.log = "unknown"
        /\ (\E i \in 1..3 : /\ last.row.online_state = ChainAsStored[i]
                              /\ last.new_state = ChainAsStored[i + 2])
              => last.log = "cannot"

C5_Witness ==
    /\ Called
    /\ last.row.online_state = "init"
    /\ last.new_state = "pause"
    /\ last.log = "cannot"
    /\ match_row.online_state = "init"

----------------------------------------------------------------------------
(* C6 *)

\* C6 as stated: under any interleaving of concurrent calls, no two writes of
\* online_state were validated against the same persisted state, and no two
\* events stem from it: of two callers that read the same state, only one
\* commits.
C6_OneCommitPerState ==
    \A i, j \in 1..Len(commits) :
        i # j => commits[i].version # commits[j].version

----------------------------------------------------------------------------
(* C7 *)

\* C7: the snapshot's state is online_state when that is non-empty, otherwise
\* end for a confirmed match and init for an unconfirmed one.
C7_SnapshotState ==
    snapshot.op = "serialize" /\ snapshot.result.raised = ""
        => snapshot.result.value["state"] =
              (IF snapshot.of.online_state # "" THEN snapshot.of.online_state
               ELSE IF snapshot.of.confirmed # None THEN "end" ELSE "init")

C7_Witness ==
    /\ snapshot.op = "serialize"
    /\ snapshot.result.raised = ""
    /\ snapshot.of.online_state = ""
    /\ snapshot.of.confirmed # None
    /\ snapshot.result.value["state"] = "end"

----------------------------------------------------------------------------
(* C8 *)

\* C8 as stated: for online_state empty or one of the five states, a call is
\* accepted iff it requests the single successor of the state the snapshot of
\* the persisted match reports.
C8_SnapshotStateIsValidatedState ==
    Called /\ last.row.online_state \in {""} \cup ChainStates(ChainAsStored)
        => (Accepted <=>
              last.new_state \in ChainSucc(ChainAsStored, serialize(last.row, << >>).value["state"]))

----------------------------------------------------------------------------
(* C9 *)

\* C9 as stated: serialize with extra fields does not fail and every extra
\* field, colliding with a key of the snapshot or not, has the caller's value
\* in the result.
C9_ExtraFieldsTakePrecedence ==
    snapshot.op = "serialize"
        => /\ snapshot.result.raised = ""
           /\ \A k \in DOMAIN snapshot.kwargs :
                 /\ k \in DOMAIN snapshot.result.value
                 /\ snapshot.result.value[k] = snapshot.kwargs[k]

----------------------------------------------------------------------------
(* C10 *)

\* C10: the event snapshot never fails; its team_index is 0 for an event of
\* the home team, 1 for an event of the away team, and -1 for an event with no
\* team or with a team that is neither.
C10_TeamIndex ==
    event_snapshot.op = "serialize" =>
        LET team == event_snapshot.of.team_info
            index == event_snapshot.result.value.team_index
        IN  /\ event_snapshot.result.raised = ""
            /\ team = Some(match_row.home_team_info) => index = 0
            /\ team = Some(match_row.away_team_info) => index = 1
            /\ team = None => index = -1
            /\ team \notin {None, Some(match_row.home_team_info), Some(match_row.away_team_info)}
                  => index = -1

C10_Witness ==
    /\ event_snapshot.op = "serialize"
    /\ event_snapshot.of.team_info = Some(3)
    /\ event_snapshot.result.raised = ""
    /\ event_snapshot.result.value.team_index = -1
    /\ \E i \in 1..Len(match_event) : match_event[i].team_info = Some(match_row.away_team_info)

----------------------------------------------------------------------------
(* C11 *)

\* C11 as stated: a listing of the match's events is ordered by half_index,
\* then time_offset, then insertion order (the id) between events equal in both.
C11_TimelineOrder ==
    timeline.op = "list" =>
        \A i, j \in 1..Len(timeline.rows) :
            i < j =>
                LET a == timeline.rows[i]
                    b == timeline.rows[j]
                IN  \/ a.half_index[1] < b.half_index[1]
                    \/ /\ a.half_index[1] = b.half_index[1]
                       /\ a.time_offset[1] < b.time_offset[1]
                    \/ /\ a.half_index[1] = b.half_index[1]
                       /\ a.time_offset[1] = b.time_offset[1]
                       /\ a.id < b.id

----------------------------------------------------------------------------
(* C12 *)

----------------------------------------------------------------------------
(* C13 *)

\* the previous states of the four event-derivation cases, for a chain
PreviousStates(chain) == << {"", chain[1]}, {chain[2]}, {chain[3]}, {chain[4]} >>

\* every event of the table has half_index 0 or 1, time_offset 0 if it is a
\* start and 600 if it is an end; the event of an accepted call is the one the
\* previous state's case gives
EventsFollowPreviousState(chain) ==
    /\ \A i \in 1..Len(match_event) :
          /\ match_event[i].half_index[1] \in {0, 1}
          /\ match_event[i].type[1] = "start" => match_event[i].time_offset[1] = 0
          /\ match_event[i].type[1] = "end" => match_event[i].time_offset[1] = 600
    /\ Called /\ Accepted =>
          \E k \in 1..4 :
              /\ last.row.online_state \in PreviousStates(chain)[k]
              /\ Triples(last.ret) = <<ExpectedTriples[k]>>

\* C13 as stated: with the cases empty or init -> start/0/0, half_first ->
\* end/0/600, half_pause -> start/1/0, half_second -> end/1/600.
C13_EventsFollowPreviousState_AsSpecified == EventsFollowPreviousState(ChainAsSpecified)

\* C13 (amended): the same with the third case keyed by the stored value:
\* pause -> start/1/0.
C13_EventsFollowPreviousState == EventsFollowPreviousState(ChainAsStored)

C13_Witness ==
    /\ Called /\ Accepted
    /\ last.row.online_state = "pause"
    /\ Triples(last.ret) = << <<"start", 1, 0>> >>
    /\ Len(match_event) = 3

----------------------------------------------------------------------------
(* C14 *)

\* every column of the match row but online_state
OtherColumns(row) == [f \in DOMAIN row \ {"online_state"} |-> row[f]]

\* C14: no step of a change_state call, accepted or rejected, changes a column
\* of the match row other than online_state (scores, confirmed, confirmed_as,
\* first_half_start, second_half_start, the team, category and term references,
\* facebook_video_id), even when the caller's instance holds older values.
C14_OnlyOnlineStatePersisted ==
    [][(pc' # pc \/ local' # local \/ commits' # commits)
          => OtherColumns(match_row') = OtherColumns(match_row)]_vars

C14_Witness ==
    /\ match_row.score_home = Some(1)
    /\ \E i \in 1..Len(commits) :
          /\ commits[i].stale
          /\ commits[i].to = match_row.online_state

----------------------------------------------------------------------------
(* C15 *)

\* C15: from a persisted online_state that is empty or one of the five states,
\* confirmed or not, no call raises: a call that passed both checks found a
\* case for its previous state and returned the event.
C15_FaultUnreachable ==
    Called /\ last.row.online_state \in {""} \cup ChainStates(ChainAsStored)
        => /\ last.raised = ""
           /\ last.log = "changing" => Accepted

C15_Witness ==
    /\ Called /\ Accepted
    /\ last.row.online_state = ""
    /\ last.row.confirmed # None
    /\ last.log = "changing"
    /\ last.raised = ""

----------------------------------------------------------------------------
(* C16 *)

\* C16: when the insert of the event fails, the error reaches the caller, no
\* event is returned or inserted later (no retry), and the match stays
\* persisted in the state the call requested, with fewer events than accepted
\* transitions.
C16_FailedInsertKeepsState ==
    local[1].raised = "DatabaseError" =>
        /\ pc[1] = "idle"
        /\ local[1].ret = None
        /\ match_row.online_state = local[1].new_state
        /\ match_row.online_state # local[1].old_state
        /\ Len(match_event) < Len(commits)

C16_Witness ==
    /\ local[1].raised = "DatabaseError"
    /\ local[1].old_state = "half_first"
    /\ match_row.online_state = "pause"
    /\ Len(match_event) = 0

----------------------------------------------------------------------------
(* C17 *)

\* C17 as stated: a match that started with online_state empty or init and no
\* events never holds two events of the same (type, half_index), so never more
\* than four events.
C17_OneEventPerKind ==
    start_row.online_state \in {"", "init"} =>
        /\ \A i, j \in 1..Len(match_event) :
              i # j => \/ match_event[i].type # match_event[j].type
                       \/ match_event[i].half_index # match_event[j].half_index
        /\ Len(match_event) <= 4

----------------------------------------------------------------------------
(* C18 *)

\* the position of a state in the chain, 0 for a value outside it
Rank(s) == IF s \in ChainStates(ChainAsStored)
           THEN CHOOSE i \in 1..Len(ChainAsStored) : ChainAsStored[i] = s
           ELSE 0

\* C18 as stated: under any interleaving of concurrent calls no step moves the
\* persisted online_state backward along the chain; end stays end.
C18_NeverBackward ==
    [][Rank(match_row'.online_state) >= Rank(match_row.online_state)]_vars

----------------------------------------------------------------------------
(* C19 *)

\* C19 as stated: a call that raised the fault left the persisted online_state
\* as it was and appended no event.
C19_FaultBeforeMutation ==
    Called /\ last.raised = "RuntimeError" => Untouched

\* C19 (amended): the fault is raised only from a persisted online_state that
\* is non-empty and outside the five states, and it is raised after the write
\* of online_state and before the insert of the event: the persisted
\* online_state is already the requested state, every other column and the
\* event table are unchanged, and no event is returned.
C19_FaultAfterStateWrite ==
    Called /\ last.raised = "RuntimeError"
        => /\ last.row.online_state \notin {""} \cup ChainStates(ChainAsStored)
           /\ match_row.online_state = last.new_state
           /\ match_row.online_state # last.row.online_state
           /\ OtherColumns(match_row) = OtherColumns(last.row)
           /\ match_event = last.events
           /\ last.ret = None

C19_Witness ==
    /\ Called
    /\ last.raised = "RuntimeError"
    /\ last.row.online_state = "bogus"
    /\ last.row.confirmed = None
    /\ match_row.online_state = "init"

====
